---- MODULE Spec2Model ----
(***************************************************************************)
(* Signature options of the public-key layer: the PK_Signature_Options     *)
(* record with its once-only builder, the legacy constructor that turns    *)
(* (algorithm, parameter string, provider) into a record, and the checks   *)
(* for hash-based signature schemes.                                       *)
(*                                                                         *)
(* Text is modelled as a sequence of chunks: "EMSA1(SHA-256)" is           *)
(* <<"EMSA1", "(", "SHA-256", ")">> and "32" is <<"3", "2">>.  Every text  *)
(* of the model has exactly one chunking, so text equality is sequence     *)
(* equality, a prefix test is a prefix of chunks, and the descriptor       *)
(* parser and the integer parser really take the text apart.               *)
(***************************************************************************)
EXTENDS Integers, Sequences, FiniteSets, TLC

VARIABLES opts, outcome, op, called, phase

vars == <<opts, outcome, op, called, phase>>

(***************************************************************************)
(* Bounds                                                                  *)
(***************************************************************************)
MaxArgs == 4

MaxSalt == 1

(***************************************************************************)
(* Text and optional values                                                *)
(***************************************************************************)
L(c) == <<c>>

EmptyStr == <<>>

Nullopt == <<>>

Some(v) == <<v>>

has_value(x) == Len(x) > 0

value(x) == x[1]

starts_with(s, p) == Len(s) >= Len(p) /\ SubSeq(s, 1, Len(p)) = p

\* std::string_view::find(char): index of the first occurrence, 0 for npos
find(s, ch) ==
    IF \E i \in 1..Len(s) : s[i] = ch
    THEN CHOOSE i \in 1..Len(s) : s[i] = ch /\ \A j \in 1..(i - 1) : s[j] # ch
    ELSE 0

Digits == <<"0", "1", "2", "3", "4", "5", "6", "7", "8", "9">>

IsDigit(c) == \E d \in 1..10 : Digits[d] = c

DigitValue(c) == (CHOOSE d \in 1..10 : Digits[d] = c) - 1

IsNumeral(s) == Len(s) > 0 /\ \A i \in 1..Len(s) : IsDigit(s[i])

\* decimal value; the numerals of the model are far below the 32-bit limit
RECURSIVE to_u32bit(_)
to_u32bit(s) ==
    IF Len(s) = 0 THEN 0
    ELSE 10 * to_u32bit(SubSeq(s, 1, Len(s) - 1)) + DigitValue(s[Len(s)])

\* bytes of a text: one code per chunk
ChunkTable == <<"UserA", "SM3", "SHA-256", "SHA-512", ",">>

ChunkCode(c) ==
    IF \E i \in 1..Len(ChunkTable) : ChunkTable[i] = c
    THEN CHOOSE i \in 1..Len(ChunkTable) : ChunkTable[i] = c
    ELSE 0

bytes_of(s) == [i \in 1..Len(s) |-> ChunkCode(s[i])]

(***************************************************************************)
(* The record                                                              *)
(***************************************************************************)
PK_Signature_Options_hash(hash_fn) ==
    [m_hash_fn |-> hash_fn,
     m_prehash |-> Nullopt,
     m_padding |-> Nullopt,
     m_context |-> Nullopt,
     m_provider |-> Nullopt,
     m_salt_size |-> Nullopt,
     m_use_der |-> FALSE,
     m_deterministic_sig |-> FALSE,
     m_use_prehash |-> FALSE,
     m_explicit_trailer_field |-> FALSE]

PK_Signature_Options_default == PK_Signature_Options_hash(EmptyStr)

hash_function(o) == o.m_hash_fn

prehash_fn(o) == o.m_prehash

\* the accessor reading the neighbouring member
padding_mutant(o) == o.m_prehash

padding(o) == o.m_padding

context(o) == o.m_context

provider(o) == o.m_provider

salt_size(o) == o.m_salt_size

using_der_encoded_signature(o) == o.m_use_der

using_deterministic_signature(o) == o.m_deterministic_sig

using_explicit_trailer_field(o) == o.m_explicit_trailer_field

using_context(o) == has_value(context(o))

using_prehash(o) == o.m_use_prehash

using_padding(o) == has_value(padding(o))

\* the accessor without the test for "base"
using_provider_mutant(o) == has_value(provider(o))

using_provider(o) == has_value(provider(o)) /\ value(provider(o)) # L("base")

using_hash(o) == hash_function(o) # EmptyStr

(***************************************************************************)
(* Results of an operation that may throw                                  *)
(***************************************************************************)
Ok(o) == [o |-> o, err |-> "ok"]

Throw(o, e) == [o |-> o, err |-> e]

\* c, then d: the statement after a throw is not reached
Then(c, d) == IF c.err = "ok" THEN d ELSE c

(***************************************************************************)
(* The builder: every setter refuses a slot that is already set            *)
(***************************************************************************)
with_hash(o, hash) ==
    IF using_hash(o) THEN Throw(o, "InvalidState")
    ELSE IF hash = EmptyStr THEN Throw(o, "InvalidArgument")
    ELSE Ok([o EXCEPT !.m_hash_fn = hash])

with_padding(o, pad) ==
    IF using_padding(o) THEN Throw(o, "InvalidState")
    ELSE IF pad = EmptyStr THEN Throw(o, "InvalidArgument")
    ELSE Ok([o EXCEPT !.m_padding = Some(pad)])

with_prehash(o, prehash) ==
    IF using_prehash(o) THEN Throw(o, "InvalidState")
    ELSE Ok([o EXCEPT !.m_use_prehash = TRUE, !.m_prehash = prehash])

with_context_bytes(o, ctx) ==
    IF using_context(o) THEN Throw(o, "InvalidState")
    ELSE Ok([o EXCEPT !.m_context = Some(ctx)])

with_context(o, ctx) == with_context_bytes(o, bytes_of(ctx))

with_provider(o, prov) ==
    IF prov = EmptyStr THEN Ok(o)
    ELSE IF has_value(provider(o)) THEN Throw(o, "InvalidState")
    ELSE Ok([o EXCEPT !.m_provider = Some(prov)])

with_salt_size(o, n) ==
    IF has_value(salt_size(o)) THEN Throw(o, "InvalidState")
    ELSE Ok([o EXCEPT !.m_salt_size = Some(n)])

with_deterministic_signature(o) == Ok([o EXCEPT !.m_deterministic_sig = TRUE])

with_der_encoded_signature(o) == Ok([o EXCEPT !.m_use_der = TRUE])

with_explicit_trailer_field(o) == Ok([o EXCEPT !.m_explicit_trailer_field = TRUE])

(***************************************************************************)
(* SCAN_Name: "Name(arg0,arg1,...)" into a name and an argument list       *)
(***************************************************************************)
IsPunct(c) == c \in {"(", ")", ","}

NoPunct(s) == \A i \in 1..Len(s) : ~IsPunct(s[i])

NoParen(s) == \A i \in 1..Len(s) : s[i] \notin {"(", ")"}

RECURSIVE split_on(_, _)
split_on(s, ch) ==
    LET p == find(s, ch)
    IN  IF p = 0 THEN <<s>>
        ELSE <<SubSeq(s, 1, p - 1)>> \o split_on(SubSeq(s, p + 1, Len(s)), ch)

SCAN_Name(algo_spec) ==
    LET p == find(algo_spec, "(")
        name == SubSeq(algo_spec, 1, p - 1)
        inner == SubSeq(algo_spec, p + 1, Len(algo_spec) - 1)
    IN  IF p = 0
        THEN [ok |-> Len(algo_spec) > 0 /\ NoPunct(algo_spec),
              algo_name |-> algo_spec,
              args |-> <<>>]
        ELSE [ok |-> /\ Len(name) > 0
                     /\ NoPunct(name)
                     /\ algo_spec[Len(algo_spec)] = ")"
                     /\ NoParen(inner),
              algo_name |-> name,
              args |-> IF inner = EmptyStr THEN <<>> ELSE split_on(inner, ",")]

arg_count(req) == Len(req.args)

arg_count_between(req, lower, upper) == arg_count(req) >= lower /\ arg_count(req) <= upper

\* arg(i) without a default fails when the argument is absent
arg_present(req, i) == i < arg_count(req)

arg(req, i) == req.args[i + 1]

arg_or(req, i, def) == IF arg_present(req, i) THEN req.args[i + 1] ELSE def

\* arg_as_integer(i) fails when the argument is absent or not a number
arg_is_integer(req, i) == arg_present(req, i) /\ IsNumeral(arg(req, i))

arg_as_integer(req, i) == to_u32bit(arg(req, i))

(***************************************************************************)
(* The legacy constructor PK_Signature_Options(algo, params, provider)     *)
(***************************************************************************)
legacy_provider(o, prov) ==
    IF prov # EmptyStr /\ prov # L("base") THEN with_provider(o, prov) ELSE Ok(o)

\* the branch taking every accepted non-empty string for "Deterministic"
legacy_Dilithium_SPHINCS_mutant(o, params) ==
    IF params # EmptyStr /\ params # L("Randomized") /\ params # L("Deterministic")
    THEN Throw(o, "InvalidArgument")
    ELSE IF params # EmptyStr THEN with_deterministic_signature(o)
    ELSE Ok(o)

legacy_Dilithium_SPHINCS(o, params) ==
    IF params # EmptyStr /\ params # L("Randomized") /\ params # L("Deterministic")
    THEN Throw(o, "InvalidArgument")
    ELSE IF params = L("Deterministic") THEN with_deterministic_signature(o)
    ELSE Ok(o)

legacy_SM2(o, params) ==
    IF params = EmptyStr THEN with_hash(o, L("SM3"))
    ELSE LET comma == find(params, ",")
             userid == IF comma # 0 THEN SubSeq(params, 1, comma - 1) ELSE params
             hash == IF comma # 0 THEN SubSeq(params, comma + 1, Len(params)) ELSE L("SM3")
             c1 == with_context(o, userid)
         IN  Then(c1, with_hash(c1.o, hash))

legacy_Ed25519(o, params) ==
    IF params # EmptyStr /\ params # L("Identity") /\ params # L("Pure")
    THEN IF params = L("Ed25519ph") THEN with_prehash(o, Nullopt)
         ELSE with_prehash(o, Some(params))
    ELSE Ok(o)

\* the branch without the "Ed448" alias
legacy_Ed448_mutant(o, params) ==
    IF params # EmptyStr /\ params # L("Identity") /\ params # L("Pure")
    THEN IF params = L("Ed448ph") THEN with_prehash(o, Nullopt)
         ELSE with_prehash(o, Some(params))
    ELSE Ok(o)

legacy_Ed448(o, params) ==
    IF params # EmptyStr /\ params # L("Identity") /\ params # L("Pure") /\ params # L("Ed448")
    THEN IF params = L("Ed448ph") THEN with_prehash(o, Nullopt)
         ELSE with_prehash(o, Some(params))
    ELSE Ok(o)

\* the aliases that have accumulated over the years
rsa_padding(alg) ==
    IF alg = L("EMSA_PKCS1") \/ alg = L("EMSA-PKCS1-v1_5") \/ alg = L("EMSA3") THEN L("PKCS1v15")
    ELSE IF alg = L("PSSR_Raw") THEN L("PSS_Raw")
    ELSE IF alg = L("PSSR") \/ alg = L("EMSA-PSS") \/ alg = L("PSS-MGF1") \/ alg = L("EMSA4")
         THEN L("PSS")
    ELSE IF alg = L("EMSA_X931") \/ alg = L("EMSA2") \/ alg = L("X9.31") THEN L("X9.31")
    ELSE alg

rsa_Raw(o, pad, req) ==
    LET c1 == with_padding(o, pad)
    IN  IF arg_count(req) = 0 THEN c1
        ELSE IF arg_count(req) = 1 THEN Then(c1, with_prehash(c1.o, Some(arg(req, 0))))
        ELSE Throw(o, "InvalidArgument")

\* with_padding(padding); with_hash(req.arg(0));
padding_and_hash(o, pad, req) ==
    LET c1 == with_padding(o, pad)
    IN  Then(c1, with_hash(c1.o, arg(req, 0)))

\* the branch setting the hash a second time in place of the prehash
rsa_PKCS1v15_mutant(o, pad, req) ==
    LET c2 == padding_and_hash(o, pad, req)
    IN  IF arg_count(req) = 2 /\ arg(req, 0) = L("Raw")
        THEN Then(c2, with_hash(c2.o, arg(req, 1)))
        ELSE IF arg_count(req) = 1 THEN c2
        ELSE Throw(o, "LookupFailure")

rsa_PKCS1v15(o, pad, req) ==
    LET c2 == padding_and_hash(o, pad, req)
    IN  IF arg_count(req) = 2 /\ arg(req, 0) = L("Raw")
        THEN Then(c2, with_prehash(c2.o, Some(arg(req, 1))))
        ELSE IF arg_count(req) = 1 THEN c2
        ELSE Throw(o, "LookupFailure")

rsa_salt(o, req) ==
    IF arg_is_integer(req, 2) THEN with_salt_size(o, arg_as_integer(req, 2))
    ELSE Throw(o, "InvalidArgument")

\* the branch without the "MGF1" test
rsa_PSS_mutant(o, pad, req) ==
    IF arg_count_between(req, 1, 3)
    THEN LET c2 == padding_and_hash(o, pad, req)
         IN  IF arg_count(req) = 3 THEN Then(c2, rsa_salt(c2.o, req)) ELSE c2
    ELSE Throw(o, "LookupFailure")

rsa_PSS(o, pad, req) ==
    IF arg_count_between(req, 1, 3) /\ arg_or(req, 1, L("MGF1")) = L("MGF1")
    THEN LET c2 == padding_and_hash(o, pad, req)
         IN  IF arg_count(req) = 3 THEN Then(c2, rsa_salt(c2.o, req)) ELSE c2
    ELSE Throw(o, "LookupFailure")

rsa_ISO_9796_DS2(o, pad, req) ==
    IF arg_count_between(req, 1, 3)
    THEN LET implicit == arg_or(req, 1, L("exp")) = L("imp")
             c2 == padding_and_hash(o, pad, req)
             c3 == Then(c2, rsa_salt(c2.o, req))
         IN  IF arg_count(req) = 3
             THEN IF implicit THEN c3
                  ELSE Then(c3, with_explicit_trailer_field(c3.o))
             ELSE IF ~implicit THEN Then(c2, with_explicit_trailer_field(c2.o))
             ELSE c2
    ELSE Throw(o, "LookupFailure")

rsa_ISO_9796_DS3(o, pad, req) ==
    LET c1 == with_padding(o, pad)
        c2 == Then(c1, with_hash(c1.o, arg(req, 0)))
    IN  IF arg_count_between(req, 1, 2)
        THEN IF arg_or(req, 1, L("exp")) # L("imp")
             THEN Then(c2, with_explicit_trailer_field(c2.o))
             ELSE c2
        ELSE Then(c1, Throw(c1.o, "LookupFailure"))

rsa_X931(o, pad, req) ==
    IF arg_count(req) = 1
    THEN padding_and_hash(o, pad, req)
    ELSE Throw(o, "LookupFailure")

\* a padding name that is none of the above: the if/else chain has no final else
rsa_other(o, pad, req) == Ok(o)

legacy_RSA(o, params) ==
    LET req == SCAN_Name(params)
        pad == rsa_padding(req.algo_name)
    IN  IF ~req.ok THEN Throw(o, "InvalidArgument")
        ELSE IF pad = L("Raw") THEN rsa_Raw(o, pad, req)
        ELSE IF pad = L("PKCS1v15") THEN rsa_PKCS1v15(o, pad, req)
        ELSE IF pad = L("PSS_Raw") \/ pad = L("PSS") THEN rsa_PSS(o, pad, req)
        ELSE IF pad = L("ISO_9796_DS2") THEN rsa_ISO_9796_DS2(o, pad, req)
        ELSE IF pad = L("ISO_9796_DS3") THEN rsa_ISO_9796_DS3(o, pad, req)
        ELSE IF pad = L("X9.31") THEN rsa_X931(o, pad, req)
        ELSE rsa_other(o, pad, req)

\* the branch testing for "EMSA1" by equality in place of starts_with
legacy_ECDSA_mutant(o, params) ==
    IF params # EmptyStr
    THEN IF params = L("EMSA1")
         THEN LET req == SCAN_Name(params)
              IN  IF req.ok /\ arg_present(req, 0) THEN with_hash(o, arg(req, 0))
                  ELSE Throw(o, "InvalidArgument")
         ELSE with_hash(o, params)
    ELSE Ok(o)

legacy_ECDSA(o, params) ==
    IF params # EmptyStr
    THEN IF starts_with(params, L("EMSA1"))
         THEN LET req == SCAN_Name(params)
              IN  IF req.ok /\ arg_present(req, 0) THEN with_hash(o, arg(req, 0))
                  ELSE Throw(o, "InvalidArgument")
         ELSE with_hash(o, params)
    ELSE Ok(o)

IsDilithiumOrSphincs(algo) == starts_with(algo, L("Dilithium")) \/ algo = L("SPHINCS+")

legacy_dispatch(o, algo, params) ==
    IF IsDilithiumOrSphincs(algo) THEN legacy_Dilithium_SPHINCS(o, params)
    ELSE IF algo = L("SM2") THEN legacy_SM2(o, params)
    ELSE IF algo = L("Ed25519") THEN legacy_Ed25519(o, params)
    ELSE IF algo = L("Ed448") THEN legacy_Ed448(o, params)
    ELSE IF algo = L("RSA") THEN legacy_RSA(o, params)
    ELSE legacy_ECDSA(o, params)

PK_Signature_Options_legacy(algo, params, prov) ==
    LET c0 == legacy_provider(PK_Signature_Options_default, prov)
    IN  Then(c0, legacy_dispatch(c0.o, algo, params))

\* the algorithms that fall through to the last branch of the constructor
IsSignatureFormatFamily(algo) ==
    ~IsDilithiumOrSphincs(algo) /\ algo \notin {L("SM2"), L("Ed25519"), L("Ed448"), L("RSA")}

\* PK_Signature_Options::_parse(key, padding, format)
parse(algo, params, format) ==
    LET c == PK_Signature_Options_legacy(algo, params, EmptyStr)
    IN  IF format = "DerSequence" /\ IsSignatureFormatFamily(algo)
        THEN Then(c, with_der_encoded_signature(c.o))
        ELSE c

(***************************************************************************)
(* Checks for hash-based signature schemes                                 *)
(***************************************************************************)
\* the check without the padding test
validate_for_hash_based_signature_mutant(options, algo_name, hash_fn) ==
    IF hash_function(options) # EmptyStr /\ hash_fn = EmptyStr
    THEN Throw(options, "InvalidArgument")
    ELSE IF hash_function(options) # EmptyStr /\ hash_function(options) # hash_fn
    THEN Throw(options, "InvalidArgument")
    ELSE IF using_prehash(options) THEN Throw(options, "InvalidArgument")
    ELSE Ok(options)

\* PK_Options_Checks::validate_for_hash_based_signature (free function, const&)
validate_for_hash_based_signature(options, algo_name, hash_fn) ==
    IF hash_function(options) # EmptyStr /\ hash_fn = EmptyStr
    THEN Throw(options, "InvalidArgument")
    ELSE IF hash_function(options) # EmptyStr /\ hash_function(options) # hash_fn
    THEN Throw(options, "InvalidArgument")
    ELSE IF using_padding(options) THEN Throw(options, "InvalidArgument")
    ELSE IF using_prehash(options) THEN Throw(options, "InvalidArgument")
    ELSE Ok(options)

\* take(m_hash_fn): hand out the value and leave the slot empty
take_hash(o) == [o EXCEPT !.m_hash_fn = EmptyStr]

\* PK_Signature_Options::validate_for_hash_based_signature_algorithm (member)
validate_for_hash_based_signature_algorithm(o, algo_name, acceptable_hash) ==
    LET hash == hash_function(o)
        o1 == take_hash(o)
    IN  IF hash # EmptyStr
        THEN IF ~has_value(acceptable_hash) THEN Throw(o1, "InvalidArgument")
             ELSE IF hash # value(acceptable_hash) THEN Throw(o1, "InvalidArgument")
             ELSE Ok(o1)
        ELSE Ok(o1)

(***************************************************************************)
(* Inputs                                                                  *)
(***************************************************************************)
HashNames == {L("SHA-256"), L("SM3")}

PaddingNames == {L("PSS")}

PrehashArgs == {Nullopt, Some(L("SHA-512"))}

ContextStrings == {L("UserA")}

ContextBytes == {<<7, 7>>}

Providers == {EmptyStr, L("base"), L("pkcs11")}

SaltSizes == 0..MaxSalt

CheckedAlgos == {L("Falcon"), L("XMSS")}

Formats == {"Standard", "DerSequence"}

Algos ==
    {<<"Dilithium", "-X">>, L("Dilithium"), L("SPHINCS+"), L("SM2"), L("Ed25519"),
     L("Ed448"), L("RSA"), L("ECDSA"), L("DSA")}

PlainParams ==
    {EmptyStr, L("Randomized"), L("Deterministic"), L("Bogus"), L("Identity"), L("Pure"),
     L("Ed25519ph"), L("Ed448ph"), L("Ed448"), L("SHA-512"), L("UserA"),
     <<"UserA", ",", "SM3">>, <<"UserA", ",", "SHA-256">>, <<"UserA", ",">>,
     <<",", "SM3">>, L("EMSA1"), <<"EMSA1", "(", ")">>, <<"EMSA1", "(", "SHA-256">>,
     <<"EMSA1", "X", "(", "SHA-256", ")">>, <<"PSS", "(", "SHA-256", ")", ")">>,
     <<"(", "SHA-256", ")">>}

SchemeNames ==
    {L("Raw"), L("PKCS1v15"), L("PSS"), L("PSS_Raw"), L("ISO_9796_DS2"), L("ISO_9796_DS3"),
     L("X9.31"), L("EMSA_PKCS1"), L("EMSA-PKCS1-v1_5"), L("EMSA3"), L("PSSR_Raw"),
     L("PSSR"), L("EMSA-PSS"), L("PSS-MGF1"), L("EMSA4"), L("EMSA_X931"), L("EMSA2"),
     L("EMSA1"), L("OAEP"), <<"PSS", "2">>}

ArgWords == {L("SHA-256"), L("MGF1"), L("Raw"), L("imp"), <<"3", "2">>}

ArgLists(n) == UNION {[1..k -> ArgWords] : k \in 0..n}

RECURSIVE join(_)
join(args) ==
    IF Len(args) = 0 THEN EmptyStr
    ELSE IF Len(args) = 1 THEN args[1]
    ELSE args[1] \o <<",">> \o join(Tail(args))

\* the text of a descriptor: Name, or Name(arg0,arg1,...)
Render(name, args) ==
    IF Len(args) = 0 THEN name ELSE name \o <<"(">> \o join(args) \o <<")">>

Descriptors(n) == {Render(name, args) : name \in SchemeNames, args \in ArgLists(n)}

LegacyInputs ==
    (Algos \X PlainParams)
        \cup ({L("RSA")} \X Descriptors(MaxArgs))
        \cup ((Algos \ {L("RSA")}) \X Descriptors(1))

(***************************************************************************)
(* State machine of the builder and the checks                             *)
(***************************************************************************)
Op(name, a, b) == [name |-> name, a |-> a, b |-> b]

Init ==
    /\ opts = PK_Signature_Options_default
    /\ outcome = "ok"
    /\ op = Op("new", EmptyStr, EmptyStr)
    /\ called = {}
    /\ phase = "build"

\* what the caller holds after a step: the new record, or the old one after a throw
returned(c, old) == IF c.err = "ok" THEN c.o ELSE old

\* a builder step on the record under construction; a record that has been
\* handed to a consumer (phase "consumed") is not built on any further
Step(c, o, tags) ==
    /\ phase = "build"
    /\ opts' = returned(c, opts)
    /\ outcome' = c.err
    /\ op' = o
    /\ called' = IF c.err = "ok" THEN called \cup tags ELSE called
    /\ phase' = phase

New ==
    /\ opts' = PK_Signature_Options_default
    /\ outcome' = "ok"
    /\ op' = Op("new", EmptyStr, EmptyStr)
    /\ called' = {}
    /\ phase' = "build"

With_hash ==
    \E h \in HashNames \cup {EmptyStr} :
        Step(with_hash(opts, h), Op("with_hash", h, EmptyStr), {"hash"})

With_padding ==
    \E p \in PaddingNames \cup {EmptyStr} :
        Step(with_padding(opts, p), Op("with_padding", p, EmptyStr), {"padding"})

With_prehash ==
    \E p \in PrehashArgs :
        Step(with_prehash(opts, p), Op("with_prehash", p, EmptyStr), {"prehash"})

With_context ==
    \E c \in ContextStrings :
        Step(with_context(opts, c), Op("with_context", bytes_of(c), EmptyStr), {"context"})

With_context_bytes ==
    \E c \in ContextBytes :
        Step(with_context_bytes(opts, c), Op("with_context", c, EmptyStr), {"context"})

With_provider ==
    \E p \in Providers :
        Step(with_provider(opts, p), Op("with_provider", p, EmptyStr),
             IF p = EmptyStr THEN {}
             ELSE IF p = L("base") THEN {"provider"}
             ELSE {"provider", "provider:named"})

With_salt_size ==
    \E n \in SaltSizes :
        Step(with_salt_size(opts, n), Op("with_salt_size", Some(n), EmptyStr), {"salt_size"})

With_deterministic_signature ==
    Step(with_deterministic_signature(opts), Op("with_deterministic_signature", EmptyStr, EmptyStr), {})

With_der_encoded_signature ==
    Step(with_der_encoded_signature(opts), Op("with_der_encoded_signature", EmptyStr, EmptyStr), {})

With_explicit_trailer_field ==
    Step(with_explicit_trailer_field(opts), Op("with_explicit_trailer_field", EmptyStr, EmptyStr), {})

\* a check made by the consumer of the record; the record is what the check leaves
Check(c, o) ==
    /\ opts' = c.o
    /\ outcome' = c.err
    /\ op' = o
    /\ phase' = "consumed"
    /\ UNCHANGED called

Validate ==
    \E a \in CheckedAlgos, h \in HashNames \cup {EmptyStr} :
        Check(validate_for_hash_based_signature(opts, a, h), Op("validate", a, h))

ValidateMember ==
    \E a \in CheckedAlgos, h \in {Nullopt} \cup {Some(x) : x \in HashNames} :
        Check(validate_for_hash_based_signature_algorithm(opts, a, h), Op("validate_member", a, h))

Next ==
    \/ New
    \/ With_hash
    \/ With_padding
    \/ With_prehash
    \/ With_context
    \/ With_context_bytes
    \/ With_provider
    \/ With_salt_size
    \/ With_deterministic_signature
    \/ With_der_encoded_signature
    \/ With_explicit_trailer_field
    \/ Validate
    \/ ValidateMember

Spec == Init /\ [][Next]_vars

(***************************************************************************)
(* State machine of the legacy constructor: every construction starts from *)
(* nothing, and the caller keeps the object only if no exception was thrown *)
(***************************************************************************)
Fresh == op.name = "new"

Legacy(c, o) ==
    /\ opts' = returned(c, opts)
    /\ outcome' = c.err
    /\ op' = o
    /\ UNCHANGED <<called, phase>>

Construct ==
    /\ Fresh
    /\ \E in \in LegacyInputs, p \in Providers :
           Legacy(PK_Signature_Options_legacy(in[1], in[2], p),
                  [name |-> "construct", a |-> in[1], b |-> in[2], provider |-> p])

Parse ==
    /\ Fresh
    /\ \E in \in LegacyInputs, f \in Formats :
           Legacy(parse(in[1], in[2], f),
                  [name |-> "parse", a |-> in[1], b |-> in[2], format |-> f])

Discard ==
    /\ ~Fresh
    /\ New

NextLegacy ==
    \/ Construct
    \/ Parse
    \/ Discard

SpecLegacy == Init /\ [][NextLegacy]_vars

(***************************************************************************)
(* Properties of the builder and the checks (specification Spec)           *)
(***************************************************************************)
SetterOps ==
    {"with_hash", "with_padding", "with_prehash", "with_context", "with_provider", "with_salt_size"}

FlagOps ==
    {"with_deterministic_signature", "with_der_encoded_signature", "with_explicit_trailer_field"}

BuilderOps == SetterOps \cup FlagOps

\* the slot a setter call is about; "" for a call that is about no slot
SlotOf(o) ==
    IF o.name = "with_hash" THEN "hash"
    ELSE IF o.name = "with_padding" THEN "padding"
    ELSE IF o.name = "with_prehash" THEN "prehash"
    ELSE IF o.name = "with_context" THEN "context"
    ELSE IF o.name = "with_salt_size" THEN "salt_size"
    ELSE IF o.name = "with_provider" /\ o.a # EmptyStr THEN "provider"
    ELSE ""

ValidInput(o) == o.name \in {"with_hash", "with_padding"} => o.a # EmptyStr

\* the value given to the setter is what the slot's accessor returns
Readable(o, r) ==
    IF o.name = "with_hash" THEN hash_function(r) = o.a
    ELSE IF o.name = "with_padding" THEN padding(r) = Some(o.a)
    ELSE IF o.name = "with_prehash" THEN using_prehash(r) /\ prehash_fn(r) = o.a
    ELSE IF o.name = "with_context" THEN context(r) = Some(o.a)
    ELSE IF o.name = "with_salt_size" THEN salt_size(r) = o.a
    ELSE provider(r) = Some(o.a)

SlotValue(t, r) ==
    IF t = "hash" THEN Some(r.m_hash_fn)
    ELSE IF t = "padding" THEN r.m_padding
    ELSE IF t = "prehash" THEN <<r.m_use_prehash, r.m_prehash>>
    ELSE IF t = "context" THEN r.m_context
    ELSE IF t = "salt_size" THEN r.m_salt_size
    ELSE r.m_provider

C1Step ==
    op'.name \in BuilderOps =>
        /\ SlotOf(op') # "" /\ SlotOf(op') \in called =>
              outcome' = "InvalidState" /\ opts' = opts
        /\ SlotOf(op') # "" /\ SlotOf(op') \notin called /\ ValidInput(op') =>
              outcome' = "ok" /\ Readable(op', opts')
        /\ \A t \in called : SlotValue(t, opts') = SlotValue(t, opts)

\* C1: on a builder chain that starts from the empty record, the first call
\* of a once-settable slot's setter (hash, padding, prehash, context, provider
\* with a non-empty name, salt_size) with valid input succeeds and the value
\* is readable through the accessor; every later call of that setter fails
\* with InvalidState and leaves the record as it was; no builder step changes
\* a slot that has been set.
C1_OnceSettable == [][C1Step]_vars

\* a second with_padding was refused and the first value is still there
C1_Witness ==
    /\ op.name = "with_padding"
    /\ outcome = "InvalidState"
    /\ "padding" \in called
    /\ opts.m_padding = Some(L("PSS"))
    /\ opts.m_hash_fn = L("SM3")

C4Rejects(r, h) ==
    \/ has_value(r.m_padding)
    \/ r.m_use_prehash
    \/ r.m_hash_fn # EmptyStr /\ h = EmptyStr
    \/ r.m_hash_fn # EmptyStr /\ r.m_hash_fn # h

\* C4: validate_for_hash_based_signature(options, algo_name, acceptable_hash)
\* fails with InvalidArgument, for every algo_name, when options has padding
\* set, or prehash requested, or a hash set while acceptable_hash is absent,
\* or a hash set that differs from acceptable_hash; it accepts otherwise.
C4_ValidateRejects ==
    [][op'.name = "validate" =>
          outcome' = IF C4Rejects(opts, op'.b) THEN "InvalidArgument" ELSE "ok"]_vars

\* padding alone makes the check fail: the hash is the acceptable one
C4_Witness ==
    /\ op.name = "validate"
    /\ outcome = "InvalidArgument"
    /\ has_value(opts.m_padding)
    /\ ~opts.m_use_prehash
    /\ opts.m_hash_fn = L("SHA-256")
    /\ op.b = L("SHA-256")

\* C5: validation is read-only: a validation step, accepting or rejecting,
\* leaves every slot of the options record unchanged (the hash included), so
\* the same validation made again gives the same outcome.
C5_ValidationReadOnly ==
    [][op'.name \in {"validate", "validate_member"} =>
          /\ opts' = opts
          /\ op' = op => outcome' = outcome]_vars

\* C7: using_provider() is true exactly when the chain has a successful
\* with_provider call whose name is neither empty nor "base";
\* with_provider("") returns its input unchanged in every slot, and after
\* with_provider("base") the record is as good as one without a provider.
C7_Provider ==
    [][op'.name \in BuilderOps =>
          /\ using_provider(opts') <=> "provider:named" \in called'
          /\ op'.name = "with_provider" /\ op'.a = EmptyStr =>
                outcome' = "ok" /\ opts' = opts
          /\ op'.name = "with_provider" /\ op'.a = L("base") /\ outcome' = "ok" =>
                /\ ~using_provider(opts')
                /\ [opts' EXCEPT !.m_provider = Nullopt] = opts]_vars

\* with_provider("base") went through and the record does not use a provider
C7_Witness ==
    /\ op.name = "with_provider"
    /\ op.a = L("base")
    /\ outcome = "ok"
    /\ "provider" \in called
    /\ ~using_provider(opts)
    /\ opts.m_hash_fn = L("SHA-256")

(***************************************************************************)
(* Properties of the legacy constructor (specification SpecLegacy)         *)
(***************************************************************************)
IsLegacy == op.name \in {"parse", "construct"}

\* the record before the per-algorithm part: empty, or with the provider given
BaseOf ==
    IF op.name = "construct" /\ op.provider \notin {EmptyStr, L("base")}
    THEN [PK_Signature_Options_default EXCEPT !.m_provider = Some(op.provider)]
    ELSE PK_Signature_Options_default

Req == SCAN_Name(op.b)

KnownPaddings ==
    {L("Raw"), L("PKCS1v15"), L("PSS"), L("PSS_Raw"), L("ISO_9796_DS2"), L("ISO_9796_DS3"),
     L("X9.31")}

\* C2: for RSA and a scheme name that, after aliasing, is none of Raw,
\* PKCS1v15, PSS, PSS_Raw, ISO_9796_DS2, ISO_9796_DS3, X9.31, parsing
\* succeeds for any argument list and the padding slot holds that name.
C2_PassThrough ==
    IsLegacy /\ op.a = L("RSA") /\ Req.ok /\ rsa_padding(Req.algo_name) \notin KnownPaddings =>
        outcome = "ok" /\ opts.m_padding = Some(rsa_padding(Req.algo_name))

FormatFamily(a) ==
    /\ ~starts_with(a, L("Dilithium"))
    /\ a \notin {L("SPHINCS+"), L("SM2"), L("Ed25519"), L("Ed448"), L("RSA")}

OtherFormat(f) == IF f = "Standard" THEN "DerSequence" ELSE "Standard"

ResultOf(c) == <<c.err, returned(c, PK_Signature_Options_default)>>

HasFirstArg == Req.ok /\ Len(Req.args) >= 1

C3Record(h) ==
    /\ outcome = "ok"
    /\ opts.m_use_der = (op.format = "DerSequence")
    /\ opts.m_hash_fn = h

C3Others ==
    ~FormatFamily(op.a) => <<outcome, opts>> = ResultOf(parse(op.a, op.b, OtherFormat(op.format)))

\* the claim C3 as first stated: every parameter string of the last branch
\* gives a record, and a string that starts with "EMSA1" gives its first argument
C3_Original ==
    op.name = "parse" =>
        /\ FormatFamily(op.a) =>
              IF starts_with(op.b, L("EMSA1"))
              THEN HasFirstArg /\ C3Record(Req.args[1])
              ELSE C3Record(op.b)
        /\ C3Others

\* C3 (amended): for an algorithm of the last branch, parse gives a record
\* with der_encoded = true exactly when format is DerSequence, whose hash is
\* the first argument when params starts with "EMSA1" and is a descriptor
\* with a first argument, the whole of params when params is otherwise
\* non-empty, and unset when params is empty; params that starts with "EMSA1"
\* without being a descriptor with a first argument fails with
\* InvalidArgument; for the other families both formats give the same result.
C3_SignatureFormatFamily ==
    op.name = "parse" =>
        /\ FormatFamily(op.a) =>
              IF starts_with(op.b, L("EMSA1"))
              THEN IF HasFirstArg THEN C3Record(Req.args[1]) ELSE outcome = "InvalidArgument"
              ELSE C3Record(op.b)
        /\ C3Others

\* ECDSA with "EMSA1(SHA-256)" and DerSequence
C3_Witness ==
    /\ op.name = "parse"
    /\ op.a = L("ECDSA")
    /\ op.b = <<"EMSA1", "(", "SHA-256", ")">>
    /\ op.format = "DerSequence"
    /\ opts.m_hash_fn = L("SHA-256")
    /\ opts.m_use_der

PSSNames ==
    {L("PSS"), L("PSSR"), L("EMSA-PSS"), L("PSS-MGF1"), L("EMSA4"), L("PSS_Raw"), L("PSSR_Raw")}

PSSCanonical(n) == IF n \in {L("PSS_Raw"), L("PSSR_Raw")} THEN L("PSS_Raw") ELSE L("PSS")

C6Case == IsLegacy /\ op.a = L("RSA") /\ Req.ok /\ Req.algo_name \in PSSNames

C6Shape ==
    /\ Len(Req.args) \in 1..3
    /\ Len(Req.args) >= 2 => Req.args[2] = L("MGF1")

C6Record ==
    /\ outcome = "ok"
    /\ opts.m_padding = Some(PSSCanonical(Req.algo_name))
    /\ opts.m_hash_fn = Req.args[1]
    /\ opts.m_salt_size = IF Len(Req.args) = 3 THEN Some(to_u32bit(Req.args[3])) ELSE Nullopt
    /\ ~opts.m_use_prehash
    /\ ~opts.m_explicit_trailer_field

\* the claim C6 as first stated: the argument count and the "MGF1" test alone
\* decide between success and LookupFailure
C6_Original ==
    C6Case => IF C6Shape THEN C6Record ELSE outcome = "LookupFailure"

\* C6 (amended): for RSA and a scheme name PSS, PSS_Raw or one of their
\* aliases, parsing succeeds exactly when there are 1 to 3 arguments, arg1
\* (if present) is "MGF1" and arg2 (if present) is a decimal number; the
\* record then has the canonical padding, hash = arg0, salt_size = arg2 as an
\* integer exactly when there is a third argument, and neither prehash nor
\* explicit trailer; a third argument that is not a number fails with
\* InvalidArgument, every other case with LookupFailure.
C6_PSS ==
    C6Case =>
        IF C6Shape
        THEN IF Len(Req.args) = 3 /\ ~IsNumeral(Req.args[3])
             THEN outcome = "InvalidArgument"
             ELSE C6Record
        ELSE outcome = "LookupFailure"

\* "PSS-MGF1(SHA-256,MGF1,32)"
C6_Witness ==
    /\ op.name = "parse"
    /\ op.a = L("RSA")
    /\ op.b = <<"PSS-MGF1", "(", "SHA-256", ",", "MGF1", ",", "3", "2", ")">>
    /\ outcome = "ok"
    /\ opts.m_padding = Some(L("PSS"))
    /\ opts.m_hash_fn = L("SHA-256")
    /\ opts.m_salt_size = Some(32)

\* C8: for an algorithm name that starts with "Dilithium" or is "SPHINCS+",
\* parsing fails with InvalidArgument exactly when params is none of empty,
\* "Randomized", "Deterministic"; on success the deterministic flag is set
\* exactly for "Deterministic" and no other slot is set.
C8_Dilithium ==
    IsLegacy /\ (starts_with(op.a, L("Dilithium")) \/ op.a = L("SPHINCS+")) =>
        IF op.b \in {EmptyStr, L("Randomized"), L("Deterministic")}
        THEN /\ outcome = "ok"
             /\ opts = [BaseOf EXCEPT !.m_deterministic_sig = (op.b = L("Deterministic"))]
        ELSE outcome = "InvalidArgument"

\* "Dilithium-X" with "Deterministic"
C8_Witness ==
    /\ op.name = "parse"
    /\ op.a = <<"Dilithium", "-X">>
    /\ op.b = L("Deterministic")
    /\ outcome = "ok"
    /\ opts.m_deterministic_sig

NoPrehashAliases(a) ==
    {EmptyStr, L("Identity"), L("Pure")} \cup (IF a = L("Ed448") THEN {L("Ed448")} ELSE {})

PrehashTrigger(a) == IF a = L("Ed25519") THEN L("Ed25519ph") ELSE L("Ed448ph")

\* C9: for Ed25519 and Ed448 parsing never fails; prehash is requested
\* exactly when params is not a no-prehash alias (empty, "Identity", "Pure",
\* for Ed448 also "Ed448"); the explicit prehash hash is then absent exactly
\* for the family's own trigger ("Ed25519ph", "Ed448ph") and is params
\* verbatim otherwise; no hash, padding or context is set.
C9_EdDSA ==
    IsLegacy /\ op.a \in {L("Ed25519"), L("Ed448")} =>
        /\ outcome = "ok"
        /\ opts.m_use_prehash = (op.b \notin NoPrehashAliases(op.a))
        /\ opts.m_prehash =
              IF op.b \in NoPrehashAliases(op.a) \/ op.b = PrehashTrigger(op.a)
              THEN Nullopt ELSE Some(op.b)
        /\ opts.m_hash_fn = EmptyStr
        /\ opts.m_padding = Nullopt
        /\ opts.m_context = Nullopt

\* Ed448 with "Ed448ph": prehash with the default hash
C9_Witness ==
    /\ op.name = "parse"
    /\ op.a = L("Ed448")
    /\ op.b = L("Ed448ph")
    /\ opts.m_use_prehash
    /\ opts.m_prehash = Nullopt

\* C10: the legacy constructor never sets a slot twice, so it never fails
\* with InvalidState: it gives a record, InvalidArgument or LookupFailure,
\* and after a failure the caller has no partly filled record.
C10_NoInvalidState ==
    IsLegacy =>
        /\ outcome \in {"ok", "InvalidArgument", "LookupFailure"}
        /\ outcome # "ok" => opts = PK_Signature_Options_default

\* ISO_9796_DS3 without arguments: the padding was set before the throw
C10_Witness ==
    /\ op.name = "construct"
    /\ op.a = L("RSA")
    /\ op.b = L("ISO_9796_DS3")
    /\ op.provider = L("pkcs11")
    /\ outcome = "LookupFailure"
    /\ opts = PK_Signature_Options_default

====
